---- MODULE Spec2Model ----
(***************************************************************************)
(* Model of page_pfp.py: the PagePFP workflow thread (run and the two wait *)
(* primitives), the global-hotkey callback thread, the watchdog handler    *)
(* that feeds the downloads queue, and the file system around them.        *)
(* Program counters are named after the source line they stand before.     *)
(***************************************************************************)
EXTENDS Integers, Sequences, FiniteSets, TLC

\* ------------------------------------------------------------------ bounds
MaxItems == 2       \* longest names list drawn by Init
RunFsOps == 2       \* external file-system operations during one whole run
WaitFsOps == 3      \* external file-system operations during one isolated wait
MaxClock == 2       \* largest modification time the model hands out
MaxTimeout == 2     \* the finite timeout of a wait, in polls of its loop
MaxWait == 2        \* max_wait of the readiness probe, in polls of its loop
FilesFsOps == 3     \* external file-system operations during one first loop
MaxQueue == 1       \* events of short-lived files waiting in the queue
LiveFsOps == 2      \* external file-system operations during one timed wait

\* ----------------------------------------------------------------- strings
\* A string is a sequence of one-character strings.
UpperChars == <<"A","B","C","D","E","F","G","H","I","J","K","L","M",
                "N","O","P","Q","R","S","T","U","V","W","X","Y","Z">>
LowerChars == <<"a","b","c","d","e","f","g","h","i","j","k","l","m",
                "n","o","p","q","r","s","t","u","v","w","x","y","z">>
DigitChars == <<"0","1","2","3","4","5","6","7","8","9">>

InSeq(c, s) == \E i \in 1..Len(s) : s[i] = c

\* str.lower() on one character
LowerChar(c) ==
    IF InSeq(c, UpperChars)
    THEN LowerChars[CHOOSE i \in 1..Len(UpperChars) : UpperChars[i] = c]
    ELSE c

\* str.lower()
Lower(s) == [i \in 1..Len(s) |-> LowerChar(s[i])]

\* str.endswith(suffix)
EndsWith(s, suffix) ==
    /\ Len(s) >= Len(suffix)
    /\ SubSeq(s, Len(s) - Len(suffix) + 1, Len(s)) = suffix

\* str.startswith(prefix)
StartsWith(s, prefix) ==
    /\ Len(s) >= Len(prefix)
    /\ SubSeq(s, 1, Len(prefix)) = prefix

\* the character class [A-Za-z0-9]
IsAlnum(c) == InSeq(c, UpperChars) \/ InSeq(c, LowerChars) \/ InSeq(c, DigitChars)

PngExt == <<".","p","n","g">>

\* evt.filename.lower().endswith(".png")
IsPngName(f) == EndsWith(Lower(f), PngExt)

\* re.match(r"^[A-Za-z0-9]{6,12}\.png$", filename): the extension is matched
\* case-sensitively, the stem is 6 to 12 alphanumerics
MatchesTempPattern(f) ==
    /\ EndsWith(f, PngExt)
    /\ Len(f) - Len(PngExt) >= 6
    /\ Len(f) - Len(PngExt) <= 12
    /\ \A i \in 1..(Len(f) - Len(PngExt)) : IsAlnum(f[i])

\* len(evt.filename) < 8 or re.match(...)
IsUnstableName(f) == Len(f) < 8 \/ MatchesTempPattern(f)

\* Path.glob("*.png") in the watched directory; the program runs on Windows
\* (win10toast), whose path flavour matches case-insensitively
GlobPng(f) == EndsWith(Lower(f), PngExt)

\* str(counter) for a non-negative integer
RECURSIVE IntStr(_)
IntStr(n) ==
    IF n < 10 THEN <<DigitChars[n + 1]>>
    ELSE IntStr(n \div 10) \o <<DigitChars[(n % 10) + 1]>>

\* f"{target_name}.png" and f"{target_name} {counter}.png"
SafeName(name) == name \o PngExt
CounterName(name, counter) == name \o <<" ">> \o IntStr(counter) \o PngExt

\* images_dir.glob(f"{name}*.png"), case-insensitive as above
GlobNamePng(name, f) ==
    /\ Len(f) >= Len(name) + Len(PngExt)
    /\ StartsWith(Lower(f), Lower(name))
    /\ EndsWith(Lower(f), PngExt)

\* prompt = f"Create a '{name}' logo" ; str(page_path)
PromptText(name) == <<"Create a '">> \o name \o <<"' logo">>
PathText(f) == <<"images_dir", "\\">> \o f

\* ---------------------------------------------------------------- universes
\* file names the browser may create in the downloads folder
FinalName == <<"a","_","b","c",".","P","N","G">>                \* a_bc.PNG
TempName  == <<"a","B","3","d","E","9",".","p","n","g">>        \* aB3dE9.png
ShortName == <<"x",".","p","n","g">>                            \* x.png
TextName  == <<"n","o","t","e","s",".","t","x","t">>            \* notes.txt
FileNames == {FinalName, TempName, ShortName, TextName}

\* names the names file may list
NameL  == <<"L">>
NameL1 == <<"L"," ","1">>
NameSet == {NameL, NameL1}
NameLists == UNION {[1..n -> NameSet] : n \in 1..MaxItems}

\* Python's None, distinct from every text and path (no text holds this token)
None == <<"None">>
\* the entry of a name that is not in the folder
Absent == [id |-> 0, mtime |-> 0, locked |-> FALSE]
Junk == <<"junk">>

\* DownloadEvent(filename=created.name, path=created): the path is the
\* downloads folder joined with the name, so a path is modelled by its name
DownloadEvent(f) == [filename |-> f, path |-> f]

VARIABLES
    names,          \* content of names.txt (read by read_names)
    namesFileOk,    \* names_file.exists()
    pc,             \* workflow thread: next source line of run / the waits
    index,          \* enumerate(names) index, 1-based
    original_snapshot,
    expected,       \* self._expected_clipboard_text
    paste_event, skip_prompt_event, skip_wait_download_event,
    clipboard,      \* system clipboard
    hk,             \* hotkey callback thread: [pc, current]
    hotkeys,        \* combinations registered with keyboard.add_hotkey
    observer,       \* self._observer
    watcher,        \* the Observer thread: "idle", "running", "joined"
    downloads_q,    \* self._downloads_q
    dl,             \* downloads folder: name -> [id, mtime, locked] or Absent
    images,         \* images folder: name -> id of the file stored there
    clock, nextId, fsBudget,
    wc,             \* frame of _wait_for_user_paste_or_skip
    wf,             \* frame of _wait_for_new_png_download
    new_png, proceeded, moved_ok,
    timeout,        \* parameter timeout of the wait in progress, in polls
    elapsed,        \* time.time() - start of the wait in progress, in polls
    rd,             \* frame of _wait_until_file_is_ready
    hist            \* observation record used by the properties only

vars == <<names, namesFileOk, pc, index, original_snapshot, expected,
          paste_event, skip_prompt_event, skip_wait_download_event, clipboard,
          hk, hotkeys, observer, watcher, downloads_q, dl, images,
          clock, nextId, fsBudget, wc, wf, new_png, proceeded, moved_ok,
          timeout, elapsed, rd, hist>>

\* os.listdir(self.downloads_dir)
ListDir == {f \in FileNames : dl[f] # Absent}

confVars == <<names, namesFileOk>>
flagVars == <<expected, paste_event, skip_prompt_event, skip_wait_download_event>>
hkVars == <<hk, hotkeys, clipboard>>
watchVars == <<observer, watcher>>
fsVars == <<dl, clock, nextId, fsBudget>>
runVars == <<index, original_snapshot, proceeded, moved_ok>>
timeVars == <<timeout, elapsed, rd>>

\* the process lives until run has left its finally block and main returns;
\* the listener thread and the queue die with it
Alive == pc # "exit"

\* ------------------------------------------------------- the file system
\* DownloadsHandler.on_created: the event is put on the (unbounded) queue
OnCreated(queue, f) == Append(queue, DownloadEvent(f))

\* the browser creates a file in the downloads folder, possibly still being
\* written (locked); the running observer reports the creation
FsCreate(f, locked, tick) ==
    /\ Alive
    /\ fsBudget > 0
    /\ dl[f] = Absent
    /\ clock + tick <= MaxClock
    /\ clock' = clock + tick
    /\ dl' = [dl EXCEPT ![f] = [id |-> nextId, mtime |-> clock', locked |-> locked]]
    /\ nextId' = nextId + 1
    /\ fsBudget' = fsBudget - 1
    /\ downloads_q' = IF watcher = "running" THEN OnCreated(downloads_q, f)
                      ELSE downloads_q
    /\ UNCHANGED <<confVars, timeVars, pc, runVars, flagVars, hkVars, watchVars, images,
                   wc, wf, new_png, hist>>

\* a file disappears from the downloads folder (no creation event)
FsDelete(f) ==
    /\ Alive
    /\ fsBudget > 0
    /\ dl[f] # Absent
    /\ dl' = [dl EXCEPT ![f] = Absent]
    /\ fsBudget' = fsBudget - 1
    /\ UNCHANGED <<confVars, timeVars, pc, runVars, flagVars, hkVars, watchVars, images,
                   downloads_q, clock, nextId, wc, wf, new_png, hist>>

\* the browser renames a finished download (a move, not a creation: the
\* handler only overrides on_created, so no event is queued)
FsRename(f, g) ==
    /\ Alive
    /\ fsBudget > 0
    /\ f # g
    /\ dl[f] # Absent
    /\ dl[g] = Absent
    /\ dl' = [dl EXCEPT ![g] = dl[f], ![f] = Absent]
    /\ fsBudget' = fsBudget - 1
    /\ UNCHANGED <<confVars, timeVars, pc, runVars, flagVars, hkVars, watchVars, images,
                   downloads_q, clock, nextId, wc, wf, new_png, hist>>

\* the writer closes the file: it becomes openable, its mtime is the close time
FsUnlock(f) ==
    /\ Alive
    /\ fsBudget > 0
    /\ dl[f] # Absent
    /\ dl[f].locked
    /\ dl' = [dl EXCEPT ![f] = [@ EXCEPT !.locked = FALSE, !.mtime = clock]]
    /\ fsBudget' = fsBudget - 1
    /\ UNCHANGED <<confVars, timeVars, pc, runVars, flagVars, hkVars, watchVars, images,
                   downloads_q, clock, nextId, wc, wf, new_png, hist>>

\* a short-lived file (a browser's scratch file) is created and removed
\* again before anyone looks at it; the observer still reports the creation
Churn(f) ==
    /\ Alive
    /\ watcher = "running"
    /\ dl[f] = Absent
    /\ Len(downloads_q) < MaxQueue
    /\ downloads_q' = OnCreated(downloads_q, f)
    /\ UNCHANGED <<confVars, timeVars, pc, runVars, flagVars, hkVars, watchVars,
                   fsVars, images, wc, wf, new_png, hist>>

FileSystem ==
    \/ \E f \in FileNames, locked \in BOOLEAN, tick \in {0, 1} : FsCreate(f, locked, tick)
    \/ \E f \in FileNames : FsDelete(f)
    \/ \E f, g \in FileNames : FsRename(f, g)
    \/ \E f \in FileNames : FsUnlock(f)

\* ------------------------------------------------------------------ time
\* timeout: Optional[float] = None
NoTimeout == 0 - 1

\* timeout is not None and (time.time() - start) > timeout
TimedOut(e) == timeout # NoTimeout /\ e > timeout

\* the elapsed time after one more blocking poll or sleep of the loop; it is
\* read only when a timeout is given, and beyond the timeout its value makes
\* no difference
Slept == IF timeout = NoTimeout \/ elapsed > timeout THEN elapsed ELSE elapsed + 1

\* time passes while the workflow thread is between two sleeps
Tick ==
    /\ Slept # elapsed
    /\ elapsed' = Slept
    /\ UNCHANGED <<confVars, timeout, rd, pc, runVars, flagVars, hkVars, watchVars,
                   fsVars, downloads_q, images, wc, wf, new_png, hist>>

\* ------------------------------------------------------ frames and locals
\* Values no later line reads are returned to their initial value when the
\* line that used them last has run: the frame of a finished call, and the
\* results proceeded, new_png and moved_ok once run has branched on them.
NoCall == [text |-> None, site |-> "main"]
CallOver(h) == [h EXCEPT !.matched = FALSE, !.owed = FALSE, !.hkFresh = FALSE,
                          !.freshSet = FALSE]
NoEvent == [filename |-> None, path |-> None]
EmptyFrame == [evt |-> NoEvent, candidates |-> {}, mtimes |-> <<>>, latest |-> None]
NoProbe == [path |-> None, site |-> "none", polls |-> 0]

\* an exception leaves the try block of run (lines 257-330): the frames of
\* the calls in progress are unwound and control reaches the finally block
Raise(kind) ==
    /\ pc' = "L333"
    /\ index' = 0
    /\ original_snapshot' = {}
    /\ proceeded' = FALSE
    /\ moved_ok' = FALSE
    /\ new_png' = None
    /\ wc' = NoCall
    /\ wf' = EmptyFrame
    /\ hist' = [CallOver(hist) EXCEPT !.exit = kind, !.via = "none", !.seen = {},
                                       !.startId = 0]

\* ------------------------------------------- _wait_for_new_png_download

\* _wait_until_file_is_ready(path, max_wait=5.0) evaluated when its polling
\* ends: False at once when the path does not exist, True when open(path,
\* "rb") succeeds, False when every open failed until max_wait elapsed
WaitUntilFileIsReady(path) == dl[path] # Absent /\ ~dl[path].locked

\* candidates = [p for p in possible_new if p.name not in original_snapshot]
\* over possible_new = list(evt.path.parent.glob("*.png"))
Candidates(snapshot) == {p \in {f \in ListDir : GlobPng(f)} : p \notin snapshot}

\* max(candidates, key=lambda p: p.stat().st_mtime): any entry of the largest
\* mtime (the listing order decides among equals)
OldestOf(cands, mtimes) == {p \in cands : \A o \in cands : mtimes[o] >= mtimes[p]}
LatestOf(cands, mtimes) == {p \in cands : \A o \in cands : mtimes[o] <= mtimes[p]}

\* the two filters of lines 193-197
IsNoiseNoSnapshot(evt, snapshot) == ~IsPngName(evt.filename)
IsNoiseNoSuffix(evt, snapshot) == evt.filename \in snapshot
IsNoise(evt, snapshot) == ~IsPngName(evt.filename) \/ evt.filename \in snapshot

\* return <path or None> to run, line 281.
\* hist.returned: the files (by identity, not by name) returned so far.
WfReturn(path, via) ==
    /\ new_png' = path
    /\ pc' = "L285"
    /\ hist' = [hist EXCEPT !.via = via,
                            !.returned = IF path = None THEN @
                                         ELSE Append(@, dl[path].id)]

\* lines 180-181
WfClearSkip ==
    /\ pc = "L180"
    /\ skip_wait_download_event' = FALSE
    /\ elapsed' = 0
    /\ wf' = EmptyFrame
    /\ pc' = "L184"
    /\ hist' = [hist EXCEPT !.via = "none"]
    /\ UNCHANGED <<confVars, timeout, rd, runVars, expected, paste_event, skip_prompt_event,
                   hkVars, watchVars, fsVars, downloads_q, images, wc, new_png>>

\* line 184: if self._skip_wait_download_event.is_set()
SkipDownloadRequestedMut == FALSE
SkipDownloadRequested == skip_wait_download_event

\* lines 184-185
WfCheckSkip ==
    /\ pc = "L184"
    /\ IF SkipDownloadRequested
       THEN WfReturn(None, "none")
       ELSE pc' = "L187" /\ UNCHANGED <<new_png, hist>>
    /\ UNCHANGED <<confVars, timeVars, runVars, flagVars, hkVars, watchVars, fsVars,
                   downloads_q, images, wc, wf>>

\* lines 186-204: pop one event, filter it, and branch on the instability
\* heuristic; or find the queue empty after the poll of 0.1 s, and only then
\* look at the timeout (run passes timeout=None in every call it makes)
WfGet ==
    /\ pc = "L187"
    /\ IF downloads_q = <<>>
       THEN /\ elapsed' = Slept
            /\ IF TimedOut(Slept)
               THEN WfReturn(None, "timeout")
               ELSE pc' = "L184" /\ UNCHANGED <<new_png, hist>>
            /\ UNCHANGED <<downloads_q, wf>>
       ELSE LET evt == Head(downloads_q) IN
            /\ downloads_q' = Tail(downloads_q)
            /\ IF IsNoise(evt, original_snapshot)
               THEN pc' = "L184" /\ wf' = EmptyFrame
               ELSE /\ wf' = [EmptyFrame EXCEPT !.evt = evt]
                    /\ pc' = IF IsUnstableName(evt.filename) THEN "L206" ELSE "L217"
            /\ UNCHANGED <<elapsed, new_png, hist>>
    /\ UNCHANGED <<confVars, timeout, rd, runVars, flagVars, hkVars, watchVars, fsVars,
                   images, wc>>

\* lines 205-211: after the sleep, re-list the folder
WfRelist ==
    /\ pc = "L206"
    /\ elapsed' = Slept
    /\ LET cands == Candidates(original_snapshot) IN
       IF cands = {}
       THEN pc' = "L184" /\ wf' = EmptyFrame
       ELSE pc' = "L212" /\ wf' = [wf EXCEPT !.candidates = cands]
    /\ UNCHANGED <<confVars, timeout, rd, runVars, flagVars, hkVars, watchVars, fsVars,
                   downloads_q, images, wc, new_png, hist>>

\* line 212: stat every candidate; a candidate that vanished since the
\* listing makes stat raise, and nothing in the wait or in run catches it
WfStat ==
    /\ pc = "L212"
    /\ IF \E c \in wf.candidates : dl[c] = Absent
       THEN Raise("error")
       ELSE LET mt == [c \in wf.candidates |-> dl[c].mtime] IN
            /\ \E latest \in LatestOf(wf.candidates, mt) :
                   wf' = [wf EXCEPT !.mtimes = mt, !.latest = latest]
            /\ pc' = "L213"
            /\ UNCHANGED <<runVars, wc, new_png, hist>>
    /\ UNCHANGED <<confVars, timeVars, flagVars, hkVars, watchVars, fsVars,
                   downloads_q, images>>

\* lines 213-215
WfProbeLatest ==
    /\ pc = "L213"
    /\ IF WaitUntilFileIsReady(wf.latest)
       THEN WfReturn(wf.latest, "relist") /\ UNCHANGED wf
       ELSE pc' = "L184" /\ wf' = EmptyFrame /\ UNCHANGED <<new_png, hist>>
    /\ UNCHANGED <<confVars, timeVars, runVars, flagVars, hkVars, watchVars, fsVars,
                   downloads_q, images, wc>>

\* lines 217-218
WfProbeDirect ==
    /\ pc = "L217"
    /\ IF WaitUntilFileIsReady(wf.evt.path)
       THEN WfReturn(wf.evt.path, "direct") /\ UNCHANGED wf
       ELSE pc' = "L184" /\ wf' = EmptyFrame /\ UNCHANGED <<new_png, hist>>
    /\ UNCHANGED <<confVars, timeVars, runVars, flagVars, hkVars, watchVars, fsVars,
                   downloads_q, images, wc>>

\* ------------------------------------------- _wait_until_file_is_ready
\* The same two calls (lines 213 and 217) followed poll by poll, where
\* WfProbeLatest and WfProbeDirect take the outcome of the last poll.
InRd == pc \in {"L227", "L229", "L231"}

\* lines 213, 217 -> line 224
RdCall ==
    /\ pc \in {"L213", "L217"}
    /\ rd' = [path |-> IF pc = "L213" THEN wf.latest ELSE wf.evt.path,
              site |-> pc, polls |-> 0]
    /\ pc' = "L227"
    /\ UNCHANGED <<confVars, timeout, elapsed, runVars, flagVars, hkVars, watchVars,
                   fsVars, downloads_q, images, wc, wf, new_png, hist>>

\* return <value> to line 213 or 217, and the branch the caller takes on it
RdReturn(value) ==
    /\ rd' = NoProbe
    /\ IF value
       THEN /\ WfReturn(rd.path, IF rd.site = "L213" THEN "relist" ELSE "direct")
            /\ UNCHANGED wf
       ELSE pc' = "L184" /\ wf' = EmptyFrame /\ UNCHANGED <<new_png, hist>>

\* lines 227-228: if not path.exists(): return False
RdExists ==
    /\ pc = "L227"
    /\ IF dl[rd.path] = Absent
       THEN RdReturn(FALSE)
       ELSE pc' = "L229" /\ UNCHANGED <<rd, wf, new_png, hist>>
    /\ UNCHANGED <<confVars, timeout, elapsed, runVars, flagVars, hkVars, watchVars,
                   fsVars, downloads_q, images, wc>>

\* lines 229-231: open(path, "rb") succeeds, or raises because the file is
\* held by its writer or has vanished since line 227 (both are OSError)
RdOpen ==
    /\ pc = "L229"
    /\ IF dl[rd.path] # Absent /\ ~dl[rd.path].locked
       THEN RdReturn(TRUE)
       ELSE pc' = "L231" /\ UNCHANGED <<rd, wf, new_png, hist>>
    /\ UNCHANGED <<confVars, timeout, elapsed, runVars, flagVars, hkVars, watchVars,
                   fsVars, downloads_q, images, wc>>

\* (time.time() - start) > max_wait, counted in polls
RdGiveUpMut(polls) == FALSE
RdGiveUp(polls) == polls > MaxWait

\* the time the probe has spent after one more sleep; beyond max_wait its
\* value makes no difference
Polled(polls) == IF polls > MaxWait THEN polls ELSE polls + 1

\* lines 232-233: give up, or sleep 0.1 s and poll again
RdPollAgain ==
    /\ pc = "L231"
    /\ IF RdGiveUp(rd.polls)
       THEN RdReturn(FALSE) /\ UNCHANGED elapsed
       ELSE /\ rd' = [rd EXCEPT !.polls = Polled(@)]
            /\ elapsed' = Slept
            /\ pc' = "L227"
            /\ UNCHANGED <<wf, new_png, hist>>
    /\ UNCHANGED <<confVars, timeout, runVars, flagVars, hkVars, watchVars,
                   fsVars, downloads_q, images, wc>>

WaitUntilFileIsReadyLoop ==
    \/ RdCall
    \/ RdExists
    \/ RdOpen
    \/ RdPollAgain

WaitForNewPngDownload ==
    \/ WfClearSkip
    \/ WfCheckSkip
    \/ WfGet
    \/ WfRelist
    \/ WfStat
    \/ WfProbeLatest
    \/ WfProbeDirect

\* ------------------------------------------------ hotkey callback thread
\* The keyboard library runs every hotkey callback on its one listener
\* thread, so a callback starts only when that thread is idle.
HkIdle == [pc |-> "idle", current |-> None]

\* workflow thread is inside _wait_for_user_paste_or_skip
InWc == pc \in {"L154", "L155", "L156", "L164", "L165", "L167", "L168"}

\* a text has been published and its confirmation wait has not returned:
\* from the copy of line 268 or 318 to the return of the wait
Awaiting == InWc \/ pc \in {"L319", "L323"}

\* line 103: Ctrl+V pressed; the callback reads the clipboard.
\* hist.seen: the clipboard contents read by the key presses made since the
\* last confirmation wait returned;
\* hist.hkFresh: the callback in progress was started during this wait.
OnPasteHotkey ==
    /\ Alive
    /\ "ctrl+v" \in hotkeys
    /\ hk.pc = "idle"
    /\ hk' = [pc |-> "L104", current |-> clipboard]
    /\ hist' = [hist EXCEPT !.hkFresh = Awaiting, !.seen = @ \cup {clipboard}]
    /\ UNCHANGED <<confVars, timeVars, pc, runVars, flagVars, hotkeys, clipboard, watchVars,
                   fsVars, downloads_q, images, wc, wf, new_png>>

\* lines 104-105
HkCheckNone ==
    /\ Alive
    /\ hk.pc = "L104"
    /\ hk' = IF expected = None THEN HkIdle ELSE [hk EXCEPT !.pc = "L106"]
    /\ UNCHANGED <<confVars, timeVars, pc, runVars, flagVars, hotkeys, clipboard, watchVars,
                   fsVars, downloads_q, images, wc, wf, new_png, hist>>

\* current == self._expected_clipboard_text
ClipboardMatches(current, exp) == current = exp

\* lines 106, 108-111: the second read of the expected text, and the compare
HkCompare ==
    /\ Alive
    /\ hk.pc = "L106"
    /\ hk' = IF ClipboardMatches(hk.current, expected)
             THEN [hk EXCEPT !.pc = "L107"]
             ELSE HkIdle
    /\ UNCHANGED <<confVars, timeVars, pc, runVars, flagVars, hotkeys, clipboard, watchVars,
                   fsVars, downloads_q, images, wc, wf, new_png, hist>>

\* Ctrl+R has been pressed for the wait in progress (the flag is set and the
\* wait has already cleared the flags left by earlier waits)
SkipPending == skip_prompt_event /\ pc \in {"L164", "L165", "L167", "L168"}

\* the confirmation wait in progress has cleared the confirmation flag
PasteCleared == pc \in {"L156", "L164", "L165", "L167", "L168"}

\* line 107.
\* hist.owed: a callback started by a key press of the wait in progress set
\* the confirmation flag inside that wait, before any Ctrl+R for it;
\* hist.freshSet: a callback started by a key press of the wait in progress
\* set the confirmation flag after that wait had cleared it.
HkSetPaste ==
    /\ Alive
    /\ hk.pc = "L107"
    /\ paste_event' = TRUE
    /\ hk' = HkIdle
    /\ hist' = [hist EXCEPT !.owed = @ \/ (hist.hkFresh /\ InWc /\ ~SkipPending),
                            !.freshSet = @ \/ (hist.hkFresh /\ PasteCleared)]
    /\ UNCHANGED <<confVars, timeVars, pc, runVars, expected, skip_prompt_event,
                   skip_wait_download_event, hotkeys, clipboard, watchVars,
                   fsVars, downloads_q, images, wc, wf, new_png>>

\* lines 113-115: Ctrl+R
OnSkipPromptHotkey ==
    /\ Alive
    /\ "ctrl+r" \in hotkeys
    /\ hk.pc = "idle"
    /\ skip_prompt_event' = TRUE
    /\ UNCHANGED <<confVars, timeVars, pc, runVars, expected, paste_event,
                   skip_wait_download_event, hkVars, watchVars,
                   fsVars, downloads_q, images, wc, wf, new_png, hist>>

\* lines 117-119: Ctrl+Shift+C
OnSkipWaitDownloadHotkey ==
    /\ Alive
    /\ "ctrl+shift+c" \in hotkeys
    /\ hk.pc = "idle"
    /\ skip_wait_download_event' = TRUE
    /\ UNCHANGED <<confVars, timeVars, pc, runVars, expected, paste_event,
                   skip_prompt_event, hkVars, watchVars,
                   fsVars, downloads_q, images, wc, wf, new_png, hist>>

\* the operator (or another program) puts something else on the clipboard:
\* unrelated text, or the current text retyped in lower case
ExternalCopy(t) ==
    /\ Alive
    /\ t # clipboard
    /\ clipboard' = t
    /\ UNCHANGED <<confVars, timeVars, pc, runVars, flagVars, hk, hotkeys, watchVars,
                   fsVars, downloads_q, images, wc, wf, new_png, hist>>

Hotkeys ==
    \/ OnPasteHotkey
    \/ HkCheckNone
    \/ HkCompare
    \/ HkSetPaste
    \/ OnSkipPromptHotkey
    \/ OnSkipWaitDownloadHotkey

Clipboard == \E t \in {Junk, Lower(clipboard)} : ExternalCopy(t)

\* ------------------------------------------ _wait_for_user_paste_or_skip
\* the call itself: bind expected_text and remember the call site
WcCall(text, site) ==
    /\ wc' = [text |-> text, site |-> site]
    /\ pc' = "L154"

\* return to the call site: line 272 (main loop) or line 323 (second pass).
\* hist.matched: some key press since the previous wait returned saw the
\* clipboard hold the text of this wait.
WcReturn(value) ==
    /\ proceeded' = value
    /\ pc' = IF wc.site = "main" THEN "L274" ELSE "L324"
    /\ hist' = [hist EXCEPT !.matched = wc.text \in hist.seen, !.seen = {}]

\* line 154
WcSetExpected ==
    /\ pc = "L154"
    /\ expected' = wc.text
    /\ pc' = "L155"
    /\ UNCHANGED <<confVars, timeVars, runVars, paste_event, skip_prompt_event,
                   skip_wait_download_event, hkVars, watchVars, fsVars,
                   downloads_q, images, wc, wf, new_png, hist>>

\* line 155
WcClearPaste ==
    /\ pc = "L155"
    /\ paste_event' = FALSE
    /\ pc' = "L156"
    /\ UNCHANGED <<confVars, timeVars, runVars, expected, skip_prompt_event,
                   skip_wait_download_event, hkVars, watchVars, fsVars,
                   downloads_q, images, wc, wf, new_png, hist>>

\* lines 156-162
WcClearSkip ==
    /\ pc = "L156"
    /\ skip_prompt_event' = FALSE
    /\ elapsed' = 0
    /\ pc' = "L164"
    /\ UNCHANGED <<confVars, timeout, rd, runVars, expected, paste_event,
                   skip_wait_download_event, hkVars, watchVars, fsVars,
                   downloads_q, images, wc, wf, new_png, hist>>

\* line 164
WcCheckPaste ==
    /\ pc = "L164"
    /\ pc' = IF paste_event THEN "L165" ELSE "L167"
    /\ UNCHANGED <<confVars, timeVars, runVars, flagVars, hkVars, watchVars, fsVars,
                   downloads_q, images, wc, wf, new_png, hist>>

\* lines 165-166
WcConfirmed ==
    /\ pc = "L165"
    /\ expected' = None
    /\ WcReturn(TRUE)
    /\ UNCHANGED <<confVars, timeVars, index, original_snapshot, moved_ok, paste_event,
                   skip_prompt_event, skip_wait_download_event, hkVars, watchVars,
                   fsVars, downloads_q, images, wc, wf, new_png>>

\* lines 167, 170-173: the skip flag, then the timeout (run passes
\* timeout=None in every call it makes), then the sleep and the loop head
WcCheckSkip ==
    /\ pc = "L167"
    /\ IF skip_prompt_event
       THEN pc' = "L168" /\ UNCHANGED <<expected, elapsed, proceeded, hist>>
       ELSE IF TimedOut(elapsed)
            THEN expected' = None /\ WcReturn(FALSE) /\ UNCHANGED elapsed
            ELSE /\ pc' = "L164"
                 /\ elapsed' = Slept
                 /\ UNCHANGED <<expected, proceeded, hist>>
    /\ UNCHANGED <<confVars, timeout, rd, index, original_snapshot, moved_ok,
                   paste_event, skip_prompt_event, skip_wait_download_event,
                   hkVars, watchVars, fsVars, downloads_q, images, wc, wf, new_png>>

\* lines 168-169
WcSkipped ==
    /\ pc = "L168"
    /\ expected' = None
    /\ WcReturn(FALSE)
    /\ UNCHANGED <<confVars, timeVars, index, original_snapshot, moved_ok, paste_event,
                   skip_prompt_event, skip_wait_download_event, hkVars, watchVars,
                   fsVars, downloads_q, images, wc, wf, new_png>>

WaitForUserPasteOrSkip ==
    \/ WcSetExpected
    \/ WcClearPaste
    \/ WcClearSkip
    \/ WcCheckPaste
    \/ WcConfirmed
    \/ WcCheckSkip
    \/ WcSkipped

\* --------------------------------------------------- move_and_rename_file
\* lines 238-243: the first free name among "<name>.png", "<name> 1.png", ...
RECURSIVE FreeCounterName(_, _, _)
FreeCounterName(name, counter, existing) ==
    IF CounterName(name, counter) \notin existing
    THEN CounterName(name, counter)
    ELSE FreeCounterName(name, counter + 1, existing)

ChooseDestMut(name, existing) == FreeCounterName(name, 1, existing)
ChooseDest(name, existing) ==
    IF SafeName(name) \notin existing THEN SafeName(name)
    ELSE FreeCounterName(name, 1, existing)

\* downloaded_path.rename(dest) can succeed when the source is there and not
\* held open by its writer (Windows refuses to rename an open file)
CanRename(src) == dl[src] # Absent /\ ~dl[src].locked

\* line 292 -> move_and_rename_file(new_png, name), lines 237-252.
\* mkdir (line 237) is outside the try: when it raises, the exception leaves
\* run. rename (line 245) is inside: any failure is reported as False.
MoveAndRenameFile ==
    /\ pc = "L292"
    /\ \/ /\ Raise("place")                         \* mkdir raised
          /\ UNCHANGED <<dl, images>>
       \/ LET dest == ChooseDest(names[index], DOMAIN images) IN
          \/ /\ CanRename(new_png)                  \* rename succeeded
             /\ images' = [f \in DOMAIN images \cup {dest} |->
                              IF f = dest THEN dl[new_png].id ELSE images[f]]
             /\ dl' = [dl EXCEPT ![new_png] = Absent]
             /\ moved_ok' = TRUE
             /\ pc' = "L293"
             /\ hist' = [hist EXCEPT !.relocated[index] = dest,
                                     !.before = images]
             /\ UNCHANGED <<index, original_snapshot, proceeded, wc, wf, new_png>>
          \/ /\ moved_ok' = FALSE                   \* rename raised
             /\ pc' = "L293"
             /\ UNCHANGED <<dl, images, hist>>
             /\ UNCHANGED <<index, original_snapshot, proceeded, wc, wf, new_png>>
    /\ UNCHANGED <<confVars, timeVars, flagVars, hkVars, watchVars, clock, nextId, fsBudget,
                   downloads_q>>

\* ------------------------------------------------------------------- run
\* lines 133-138
StopDownloadsWatcherMut == UNCHANGED <<observer, watcher>>
StopDownloadsWatcher ==
    IF observer # None
    THEN watcher' = "joined" /\ observer' = None
    ELSE UNCHANGED <<observer, watcher>>

\* line 258
RunSnapshot ==
    /\ pc = "L258"
    /\ original_snapshot' = ListDir
    /\ pc' = "L259"
    /\ hist' = [hist EXCEPT !.snapId = nextId]
    /\ UNCHANGED <<confVars, timeVars, index, proceeded, moved_ok, flagVars, hkVars, watchVars,
                   fsVars, downloads_q, images, wc, wf, new_png>>

\* line 259 -> start_downloads_watcher, lines 122-131
StartDownloadsWatcher ==
    /\ pc = "L259"
    /\ watcher' = "running"
    /\ observer' = <<"Observer">>
    /\ pc' = "L261"
    /\ hist' = [hist EXCEPT !.started = TRUE]
    /\ UNCHANGED <<confVars, timeVars, runVars, flagVars, hkVars, fsVars, downloads_q,
                   images, wc, wf, new_png>>

\* line 261 -> read_names, lines 141-147: a missing names file raises
ReadNames ==
    /\ pc = "L261"
    /\ IF namesFileOk
       THEN /\ pc' = "L264"
            /\ index' = 1
            /\ UNCHANGED <<original_snapshot, proceeded, moved_ok, wc, wf, new_png, hist>>
       ELSE Raise("error")
    /\ UNCHANGED <<confVars, timeVars, flagVars, hkVars, watchVars, fsVars, downloads_q, images>>

\* lines 264-272: next item of the first loop: copy its prompt and call the
\* confirmation wait; after the last item go on to the second loop
RunNextItem ==
    /\ pc = "L264"
    /\ IF index <= Len(names)
       THEN /\ clipboard' = PromptText(names[index])
            /\ WcCall(PromptText(names[index]), "main")
            /\ hist' = [CallOver(hist) EXCEPT !.item[index] = "AwaitingPromptConfirmation"]
            /\ UNCHANGED index
       ELSE /\ pc' = "L306"
            /\ index' = 1
            /\ UNCHANGED <<clipboard, wc, hist>>
    /\ UNCHANGED <<confVars, timeVars, original_snapshot, proceeded, moved_ok, flagVars, hk,
                   hotkeys, watchVars, fsVars, downloads_q, images, wf, new_png>>

\* line 274: if not proceeded
PromptSkippedMut(p) == FALSE
PromptSkipped(p) == ~p

\* lines 274-283
RunAfterPrompt ==
    /\ pc = "L274"
    /\ IF PromptSkipped(proceeded)
       THEN /\ index' = index + 1
            /\ pc' = "L264"
            /\ hist' = [CallOver(hist) EXCEPT !.item[index] = "SkippedAtPrompt"]
       ELSE /\ pc' = "L180"
            /\ hist' = [CallOver(hist) EXCEPT !.item[index] = "AwaitingDownload",
                                               !.startId = nextId]
            /\ UNCHANGED index
    /\ proceeded' = FALSE
    /\ wc' = NoCall
    /\ UNCHANGED <<confVars, timeVars, original_snapshot, moved_ok, flagVars, hkVars,
                   watchVars, fsVars, downloads_q, images, wf, new_png>>

\* lines 289, 293: original_snapshot = set(os.listdir(self.downloads_dir))
RefreshedMut == original_snapshot
Refreshed == ListDir

\* lines 285-290.
\* hist.snapId: every file created before the snapshot was last taken has
\* an identity below it;  hist.startId: the same for the start of the
\* download wait in progress.
RunAfterDownload ==
    /\ pc = "L285"
    /\ IF new_png = None
       THEN /\ original_snapshot' = Refreshed
            /\ index' = index + 1
            /\ pc' = "L264"
            /\ hist' = [hist EXCEPT !.item[index] = "SkippedAtDownload",
                                    !.startId = 0, !.snapId = nextId]
       ELSE /\ pc' = "L292"
            /\ hist' = [hist EXCEPT !.item[index] = "Relocating", !.startId = 0]
            /\ UNCHANGED <<original_snapshot, index>>
    /\ wf' = EmptyFrame
    /\ UNCHANGED <<confVars, timeVars, proceeded, moved_ok, flagVars, hkVars, watchVars,
                   fsVars, downloads_q, images, wc, new_png>>

\* lines 293-302
RunAfterMove ==
    /\ pc = "L293"
    /\ original_snapshot' = Refreshed
    /\ index' = index + 1
    /\ pc' = "L264"
    /\ hist' = [hist EXCEPT !.item[index] =
                  IF moved_ok THEN "Done" ELSE "RelocationFailed",
                            !.snapId = nextId]
    /\ new_png' = None
    /\ moved_ok' = FALSE
    /\ UNCHANGED <<confVars, timeVars, proceeded, flagVars, hkVars, watchVars,
                   fsVars, downloads_q, images, wc, wf>>

\* lines 307-311: the exact name if it exists, else any glob match
\* (matches[0]: the listing order decides), else nothing
ResolvePagePath(name, existing) ==
    IF SafeName(name) \in existing THEN {SafeName(name)}
    ELSE {f \in existing : GlobNamePng(name, f)}

\* lines 306-318: next name of the second loop: resolve its image and copy
\* the path, or report it missing; after the last name leave the try block
RunNextPath ==
    /\ pc = "L306"
    /\ IF index <= Len(names)
       THEN LET found == ResolvePagePath(names[index], DOMAIN images) IN
            IF found = {}
            THEN /\ index' = index + 1
                 /\ hist' = [hist EXCEPT !.published[index] = <<"not found">>]
                 /\ UNCHANGED <<pc, clipboard, wc>>
            ELSE \E page_path \in found :
                 /\ clipboard' = PathText(page_path)
                 /\ wc' = [text |-> PathText(page_path), site |-> "second"]
                 /\ pc' = "L319"
                 /\ hist' = [CallOver(hist) EXCEPT !.published[index] = page_path]
                 /\ UNCHANGED index
       ELSE /\ pc' = "L333"
            /\ hist' = [hist EXCEPT !.exit = "normal"]
            /\ UNCHANGED <<index, clipboard, wc>>
    /\ UNCHANGED <<confVars, timeVars, original_snapshot, proceeded, moved_ok, flagVars, hk,
                   hotkeys, watchVars, fsVars, downloads_q, images, wf, new_png>>

\* line 319: run sets the expected text itself, before it calls the wait
RunSetExpectedPath ==
    /\ pc = "L319"
    /\ expected' = wc.text
    /\ pc' = "L323"
    /\ UNCHANGED <<confVars, timeVars, runVars, paste_event, skip_prompt_event,
                   skip_wait_download_event, hkVars, watchVars, fsVars,
                   downloads_q, images, wc, wf, new_png, hist>>

\* lines 320-323: the message, then the call of the wait
RunCallPath ==
    /\ pc = "L323"
    /\ WcCall(wc.text, "second")
    /\ UNCHANGED <<confVars, timeVars, runVars, flagVars, hkVars, watchVars, fsVars,
                   downloads_q, images, wf, new_png, hist>>

\* lines 324-328
RunAfterPath ==
    /\ pc = "L324"
    /\ index' = index + 1
    /\ pc' = "L306"
    /\ proceeded' = FALSE
    /\ wc' = NoCall
    /\ hist' = CallOver(hist)
    /\ UNCHANGED <<confVars, timeVars, original_snapshot, moved_ok, flagVars, hkVars,
                   watchVars, fsVars, downloads_q, images, wf, new_png>>

\* lines 332-333: the finally block; the hotkeys registered by
\* _register_hotkeys are not touched by it
RunFinally ==
    /\ pc = "L333"
    /\ StopDownloadsWatcher
    /\ pc' = "exit"
    /\ UNCHANGED <<confVars, timeVars, runVars, flagVars, hkVars, fsVars, downloads_q,
                   images, wc, wf, new_png, hist>>

\* program counters inside the try block of run
TryBody == {"L258", "L259", "L261", "L264", "L274", "L285", "L292", "L293",
            "L306", "L319", "L323", "L324",
            "L154", "L155", "L156", "L164", "L165", "L167", "L168",
            "L180", "L184", "L187", "L206", "L212", "L213", "L217"}

\* KeyboardInterrupt raised in the workflow (main) thread inside the try block
Interrupt ==
    /\ pc \in TryBody
    /\ Raise("interrupt")
    /\ UNCHANGED <<confVars, timeVars, flagVars, hkVars, watchVars, fsVars, downloads_q, images>>

Run ==
    \/ RunSnapshot
    \/ StartDownloadsWatcher
    \/ ReadNames
    \/ RunNextItem
    \/ RunAfterPrompt
    \/ RunAfterDownload
    \/ MoveAndRenameFile
    \/ RunAfterMove
    \/ RunNextPath
    \/ RunSetExpectedPath
    \/ RunCallPath
    \/ RunAfterPath
    \/ RunFinally
    \/ Interrupt

\* ------------------------------------------------------------ initial states
\* lines 95-99
RegisterHotkeys == {"ctrl+v", "ctrl+r", "ctrl+shift+c"}

FileSeq == <<FinalName, TempName, ShortName, TextName>>
FileNo(f) == CHOOSE i \in 1..Len(FileSeq) : FileSeq[i] = f

\* a downloads folder holding exactly the files of S, all closed
FolderOf(S) ==
    [f \in FileNames |->
        IF f \in S THEN [id |-> FileNo(f), mtime |-> 0, locked |-> FALSE] ELSE Absent]

\* an images folder holding the files of S, left there by earlier runs
OldImages(S) == [f \in S |-> 0 - 1]

HistInit(n) ==
    [via |-> "none", exit |-> "running", started |-> FALSE,
     hkFresh |-> FALSE, seen |-> {}, matched |-> FALSE, owed |-> FALSE,
     item |-> [i \in 1..n |-> "Pending"],
     relocated |-> [i \in 1..n |-> None],
     published |-> [i \in 1..n |-> None],
     before |-> <<>>,
     freshSet |-> FALSE, startId |-> 0, snapId |-> 0, returned |-> <<>>]

\* lines 71-92: the object after __init__, before run is called
Constructed ==
    /\ downloads_q = <<>>
    /\ observer = None
    /\ paste_event = FALSE
    /\ skip_prompt_event = FALSE
    /\ skip_wait_download_event = FALSE
    /\ expected = None
    /\ hotkeys = RegisterHotkeys
    /\ hk = HkIdle
    /\ timeout = NoTimeout
    /\ elapsed = 0
    /\ rd = NoProbe

Init ==
    /\ Constructed
    /\ names \in NameLists
    /\ namesFileOk \in BOOLEAN
    /\ pc = "L258"
    /\ index = 0
    /\ original_snapshot = {}
    /\ clipboard = Junk
    /\ watcher = "idle"
    /\ dl = FolderOf({})
    /\ images \in {OldImages(S) : S \in {{}, {SafeName(NameL)}}}
    /\ clock = 0
    /\ nextId = Len(FileSeq) + 1
    /\ fsBudget = RunFsOps
    /\ wc = NoCall
    /\ wf = EmptyFrame
    /\ new_png = None
    /\ proceeded = FALSE
    /\ moved_ok = FALSE
    /\ hist = HistInit(Len(names))

\* the downloads a run receives: finished files under a final or a
\* placeholder name
RunFiles == {FinalName, ShortName}
Browser == \E f \in RunFiles : FsCreate(f, FALSE, 0)

\* The whole program: the workflow thread, the hotkey thread, and a browser
\* that delivers at most RunFsOps files.
Next ==
    \/ Run
    \/ WaitForUserPasteOrSkip
    \/ WaitForNewPngDownload
    \/ Hotkeys
    \/ Browser

Spec == Init /\ [][Next]_vars

\* The program with an operator who also changes the clipboard, and a
\* browser that delivers nothing: every download wait ends by Ctrl+Shift+C,
\* nothing is relocated, and the second loop publishes what earlier runs
\* left in the images folder.
InitConf ==
    /\ Constructed
    /\ names \in NameLists
    /\ namesFileOk = TRUE
    /\ pc = "L258"
    /\ index = 0
    /\ original_snapshot = {}
    /\ clipboard = Junk
    /\ watcher = "idle"
    /\ dl = FolderOf({})
    /\ images \in {OldImages(S) : S \in {{}, {SafeName(NameL)}}}
    /\ clock = 0
    /\ nextId = Len(FileSeq) + 1
    /\ fsBudget = 0
    /\ wc = NoCall
    /\ wf = EmptyFrame
    /\ new_png = None
    /\ proceeded = FALSE
    /\ moved_ok = FALSE
    /\ hist = HistInit(Len(names))

NextConf ==
    \/ RunSnapshot
    \/ StartDownloadsWatcher
    \/ ReadNames
    \/ RunNextItem
    \/ RunAfterPrompt
    \/ RunAfterDownload
    \/ RunNextPath
    \/ RunSetExpectedPath
    \/ RunCallPath
    \/ RunAfterPath
    \/ RunFinally
    \/ Interrupt
    \/ WaitForUserPasteOrSkip
    \/ WfClearSkip
    \/ WfCheckSkip
    \/ WfGet
    \/ Hotkeys
    \/ Clipboard

SpecConf == InitConf /\ [][NextConf]_vars

\* One call of _wait_for_new_png_download on its own: the watcher is
\* running, the snapshot is a listing of the folder, and the skip flag may
\* still be set from an earlier key press.
InitWait ==
    /\ downloads_q = <<>>
    /\ observer = <<"Observer">>
    /\ watcher = "running"
    /\ paste_event = FALSE
    /\ skip_prompt_event = FALSE
    /\ skip_wait_download_event \in BOOLEAN
    /\ expected = None
    /\ hotkeys = RegisterHotkeys
    /\ hk = HkIdle
    /\ names = <<NameL>>
    /\ namesFileOk = TRUE
    /\ pc = "L180"
    /\ index = 1
    /\ dl \in {FolderOf(S) : S \in SUBSET FileNames}
    /\ original_snapshot = ListDir
    /\ clipboard = PromptText(NameL)
    /\ images = <<>>
    /\ clock = 0
    /\ nextId = Len(FileSeq) + 1
    /\ fsBudget = WaitFsOps
    /\ wc = [text |-> PromptText(NameL), site |-> "main"]
    /\ wf = EmptyFrame
    /\ new_png = None
    /\ proceeded = TRUE
    /\ moved_ok = FALSE
    /\ timeout = NoTimeout
    /\ elapsed = 0
    /\ rd = NoProbe
    /\ hist = [HistInit(1) EXCEPT !.started = TRUE, !.item[1] = "AwaitingDownload"]

NextWait ==
    \/ WaitForNewPngDownload
    \/ FileSystem
    \/ OnSkipWaitDownloadHotkey

SpecWait == InitWait /\ [][NextWait]_vars

\* the browser has begun a download after the snapshot was taken: the file
\* is there, still held by its writer, and its creation has been reported
Downloading(f) ==
    [FolderOf({}) EXCEPT ![f] = [id |-> Len(FileSeq) + 1, mtime |-> 0, locked |-> TRUE]]

\* One call of either wait, with or without a finite timeout, the readiness
\* probe followed poll by poll, an operator at the keyboard, and a downloads
\* folder in which a download may be in progress and short-lived files may
\* come and go without end.  The workflow thread always gets to run its
\* next line, and time does not stand still.
InitLive ==
    /\ dl \in {FolderOf({}), Downloading(FinalName)}
    /\ downloads_q = IF dl[FinalName] = Absent THEN <<>>
                     ELSE OnCreated(<<>>, FinalName)
    /\ observer = <<"Observer">>
    /\ watcher = "running"
    /\ paste_event = FALSE
    /\ skip_prompt_event = FALSE
    /\ skip_wait_download_event = FALSE
    /\ expected = None
    /\ hotkeys = RegisterHotkeys
    /\ hk = HkIdle
    /\ names = <<NameL>>
    /\ namesFileOk = TRUE
    /\ pc \in {"L154", "L180"}
    /\ index = 1
    /\ original_snapshot = {}
    /\ clipboard = PromptText(NameL)
    /\ images = <<>>
    /\ clock = 0
    /\ nextId = Len(FileSeq) + 2
    /\ fsBudget = LiveFsOps
    /\ wc = [text |-> PromptText(NameL), site |-> "main"]
    /\ wf = EmptyFrame
    /\ new_png = None
    /\ proceeded = (pc = "L180")
    /\ moved_ok = FALSE
    /\ timeout \in {NoTimeout, MaxTimeout}
    /\ elapsed = 0
    /\ rd = NoProbe
    /\ hist = [HistInit(1) EXCEPT !.started = TRUE,
                 !.item[1] = IF pc = "L180" THEN "AwaitingDownload"
                             ELSE "AwaitingPromptConfirmation"]

Workflow ==
    \/ WaitForUserPasteOrSkip
    \/ WfClearSkip
    \/ WfCheckSkip
    \/ WfGet
    \/ WfRelist
    \/ WfStat
    \/ WaitUntilFileIsReadyLoop

\* short-lived files: a text file and a randomly named image
LiveFiles == {TextName, TempName}

NextLive ==
    \/ Workflow
    \/ Hotkeys
    \/ \E f \in FileNames : FsUnlock(f)
    \/ \E f \in FileNames : FsDelete(f)
    \/ \E f \in LiveFiles : Churn(f)
    \/ Tick

SpecLive == InitLive /\ [][NextLive]_vars /\ WF_vars(Workflow) /\ WF_vars(Tick)

\* a browser that writes a download under its final name or under a
\* placeholder name, and renames the placeholder when it likes
Renaming ==
    \/ \E f \in {TempName, ShortName, FinalName} : FsCreate(f, FALSE, 0)
    \/ FsRename(TempName, FinalName)

\* The first loop of run over two items, with an operator at the keyboard
\* and a browser that renames its downloads.
InitFiles ==
    /\ Constructed
    /\ names = <<NameL, NameL1>>
    /\ namesFileOk = TRUE
    /\ pc = "L258"
    /\ index = 0
    /\ original_snapshot = {}
    /\ clipboard = Junk
    /\ watcher = "idle"
    /\ dl = FolderOf({})
    /\ images = <<>>
    /\ clock = 0
    /\ nextId = Len(FileSeq) + 1
    /\ fsBudget = FilesFsOps
    /\ wc = NoCall
    /\ wf = EmptyFrame
    /\ new_png = None
    /\ proceeded = FALSE
    /\ moved_ok = FALSE
    /\ hist = HistInit(Len(names))

NextFiles ==
    \/ RunSnapshot
    \/ StartDownloadsWatcher
    \/ ReadNames
    \/ RunNextItem
    \/ RunAfterPrompt
    \/ RunAfterDownload
    \/ MoveAndRenameFile
    \/ RunAfterMove
    \/ WaitForUserPasteOrSkip
    \/ WaitForNewPngDownload
    \/ Hotkeys
    \/ Renaming

SpecFiles == InitFiles /\ [][NextFiles]_vars

\* ================================================================ properties
\* the confirmation wait has just returned to run
WcReturned == pc \in {"L274", "L324"}

\* C1: a confirmation wait returns Confirmed only if Ctrl+V was pressed for
\* it (after the wait before it had returned) at a moment when the clipboard
\* held exactly the text this wait expects; a key press evaluated against an
\* earlier wait never confirms a later one.
C1_ConfirmedOnlyIfMatched == (WcReturned /\ proceeded) => hist.matched

\* C2: when Ctrl+V is pressed during a confirmation wait, the callback finds
\* the clipboard equal to the expected text and sets the confirmation flag
\* inside that wait (no Ctrl+R having come first), that wait returns Confirmed.
C2_MatchNeverLost == (WcReturned /\ hist.owed) => proceeded

\* _wait_for_new_png_download has just returned a path to run
WfReturnedPath == pc = "L285" /\ new_png # None

\* C3: the download wait never returns a path whose file name is in the
\* snapshot it was given, whether the path comes from the event or from the
\* re-listing, and also when a file of the snapshot was deleted and created
\* again during the wait.
C3_NeverFromSnapshot == WfReturnedPath => new_png \notin original_snapshot

\* a path was returned although a .png file of the snapshot had been deleted
\* and created again under the same name during the wait
C3_Witness ==
    /\ WfReturnedPath
    /\ \E f \in original_snapshot :
          /\ IsPngName(f)
          /\ dl[f] # Absent
          /\ dl[f].id > Len(FileSeq)

\* C4: the download wait never returns a path whose file name does not end
\* in ".png" (compared without regard to case), on either path.
C4_OnlyPng ==
    WfReturnedPath =>
        /\ Len(new_png) >= 4
        /\ Lower(SubSeq(new_png, Len(new_png) - 3, Len(new_png))) = <<".", "p", "n", "g">>

\* a path ending in upper-case .PNG was returned while a file that is not a
\* .png lay in the folder outside the snapshot
C4_Witness ==
    /\ WfReturnedPath
    /\ ~EndsWith(new_png, PngExt)
    /\ dl[TextName] # Absent
    /\ TextName \notin original_snapshot

\* C8: an accepted event with an unstable name (shorter than 8 characters, or
\* 6 to 12 alphanumerics followed by ".png") is never answered with the
\* event's own path directly: the folder is re-listed, the candidates are
\* exactly its .png entries absent from the snapshot, only a candidate of the
\* largest modification time that passes the readiness check may be returned,
\* and without a candidate, or with one that is not ready, the wait goes back
\* to the head of its loop.
C8_Step ==
    /\ (pc = "L187" /\ pc' \notin {"L184", "L187"}
            /\ (Len(wf'.evt.filename) < 8 \/ MatchesTempPattern(wf'.evt.filename)))
         => pc' = "L206"
    /\ (pc = "L206" /\ pc' # pc) =>
         LET fresh == {f \in ListDir : IsPngName(f) /\ f \notin original_snapshot} IN
         IF fresh = {} THEN pc' = "L184"
         ELSE pc' = "L212" /\ wf'.candidates = fresh
    /\ (pc = "L212" /\ pc' \notin {pc, "L333"}) =>
         /\ pc' = "L213"
         /\ wf'.latest \in wf.candidates
         /\ \A c \in wf.candidates : dl[c].mtime <= dl[wf'.latest].mtime
    /\ (pc = "L213" /\ pc' # pc) =>
         IF dl[wf.latest] # Absent /\ ~dl[wf.latest].locked
         THEN pc' = "L285" /\ new_png' = wf.latest
         ELSE pc' = "L184" /\ new_png' = None

C8_UnstableGoesThroughRelist == [][C8_Step]_vars

\* the event named a placeholder, two candidates of different age were
\* listed, and the path returned is not the event's own
C8_Witness ==
    /\ WfReturnedPath
    /\ hist.via = "relist"
    /\ IsUnstableName(wf.evt.filename)
    /\ new_png # wf.evt.path
    /\ \E c \in wf.candidates : wf.mtimes[c] < wf.mtimes[new_png]

\* ---------------------------------------------------------------- relocation
\* move_and_rename_file has just succeeded for the current item
Relocated == pc = "L293" /\ moved_ok

\* C5: a relocation never overwrites a file of the images folder: the file
\* goes to "<name>.png" when that name is free, otherwise to "<name> <n>.png"
\* for the smallest free n >= 1; every file that was there before is still
\* there unchanged, and the relocations of one run end at distinct names.
C5_NoOverwrite ==
    /\ \A i, j \in DOMAIN hist.relocated :
          (i # j /\ hist.relocated[i] # None) => hist.relocated[i] # hist.relocated[j]
    /\ Relocated =>
         LET dest == hist.relocated[index]
             name == names[index]
             old == DOMAIN hist.before
         IN /\ dest \notin old
            /\ dest \in DOMAIN images
            /\ \A f \in old : f \in DOMAIN images /\ images[f] = hist.before[f]
            /\ IF name \o <<".", "p", "n", "g">> \notin old
               THEN dest = name \o <<".", "p", "n", "g">>
               ELSE \E n \in 1..(Cardinality(old) + 1) :
                      /\ dest = CounterName(name, n)
                      /\ \A m \in 1..(n - 1) : CounterName(name, m) \in old

\* two items of the same name: the first went to "L.png", the second has just
\* been moved to "L 1.png"
C5_Witness ==
    /\ Relocated
    /\ names = <<NameL, NameL>>
    /\ hist.relocated = <<SafeName(NameL), CounterName(NameL, 1)>>

C7_HotkeysReleased == pc = "exit" => hotkeys = {}

\* --------------------------------------------------------------- second loop
\* C9: in the second loop the path published for a name is the path of the
\* image relocated for that item, and a name whose item produced no relocated
\* image is reported as not found.
C9_PublishedIsRelocated ==
    \A i \in DOMAIN hist.published :
       hist.published[i] # None =>
          hist.published[i] =
             IF hist.relocated[i] # None THEN hist.relocated[i] ELSE <<"not found">>

\* ------------------------------------------------------------ item life cycle
Terminal == {"Done", "SkippedAtPrompt", "SkippedAtDownload", "RelocationFailed"}

AllowedMove ==
    {<<"Pending", "AwaitingPromptConfirmation">>,
     <<"AwaitingPromptConfirmation", "AwaitingDownload">>,
     <<"AwaitingPromptConfirmation", "SkippedAtPrompt">>,
     <<"AwaitingDownload", "Relocating">>,
     <<"AwaitingDownload", "SkippedAtDownload">>,
     <<"Relocating", "Done">>,
     <<"Relocating", "RelocationFailed">>}

\* where the workflow thread is decides the state of the current item, the
\* items before it are finished and the items after it not begun
C10_Inv ==
    /\ (InWc /\ wc.site = "main") => hist.item[index] = "AwaitingPromptConfirmation"
    /\ pc = "L274" => hist.item[index] = "AwaitingPromptConfirmation"
    /\ pc \in {"L180", "L184", "L187", "L206", "L212", "L213", "L217", "L285"}
          => hist.item[index] = "AwaitingDownload"
    /\ pc \in {"L292", "L293"} => hist.item[index] = "Relocating"
    /\ pc \in {"L264", "L274", "L285", "L292", "L293"} \cup
             {"L154", "L155", "L156", "L164", "L165", "L167", "L168",
              "L180", "L184", "L187", "L206", "L212", "L213", "L217"}
          => (wc.site = "main" =>
                \A i \in DOMAIN hist.item :
                   /\ i < index => hist.item[i] \in Terminal
                   /\ i > index => hist.item[i] = "Pending")
    /\ pc \in {"L306", "L319", "L323", "L324"} =>
          \A i \in DOMAIN hist.item : hist.item[i] \in Terminal

C10_Step ==
    /\ \A i \in DOMAIN hist.item :
          hist.item'[i] # hist.item[i] =>
             /\ <<hist.item[i], hist.item'[i]>> \in AllowedMove
             /\ i = index
    /\ (pc = "L274" /\ ~proceeded /\ pc' \notin {pc, "L333"}) =>
          /\ pc' = "L264"
          /\ index' = index + 1
          /\ hist.item'[index] = "SkippedAtPrompt"

\* C10: items are taken in list order, each item moves only along
\* AwaitingPromptConfirmation -> AwaitingDownload | SkippedAtPrompt,
\* AwaitingDownload -> Relocating | SkippedAtDownload, Relocating -> Done |
\* RelocationFailed, a finished item is never entered again, every item is
\* finished when the first loop ends, and after a Skipped confirmation no
\* download wait and no relocation is made for the item.
C10_ItemLifeCycle == []C10_Inv /\ [][C10_Step]_vars

\* the first loop has ended with the first item skipped at its prompt and
\* the second item relocated
C10_Witness ==
    /\ pc = "L306"
    /\ Len(names) = 2
    /\ hist.item = <<"SkippedAtPrompt", "Done">>

\* ---------------------------------------------------------- readiness probe
C11_Step ==
    /\ (InRd /\ pc' = "L285") =>
          /\ pc = "L229"
          /\ dl[rd.path] # Absent /\ ~dl[rd.path].locked
          /\ new_png' = rd.path
    /\ (InRd /\ pc' = "L184") =>
          /\ \/ pc = "L227" /\ dl[rd.path] = Absent
             \/ pc = "L231" /\ rd.polls > MaxWait
          /\ new_png' = None
          /\ downloads_q' = downloads_q
    /\ (pc = "L227" /\ dl[rd.path] = Absent /\ pc' # pc) => pc' = "L184"
    /\ InRd => pc' \in {"L227", "L229", "L231", "L184", "L285"}

\* C11: the readiness probe always ends; it answers ready only at an open
\* that succeeded, not-ready at once when the path does not exist, and
\* not-ready when more than max_wait has passed with every open failing;
\* on not-ready the download wait returns nothing, raises nothing, and goes
\* back to its loop head.
C11_ReadyTerminates == [][C11_Step]_vars /\ (InRd ~> ~InRd)

\* the probe has polled a file held by its writer until max_wait ran out and
\* is about to answer not-ready
C11_Witness ==
    /\ pc = "L231"
    /\ rd.polls > MaxWait
    /\ dl[rd.path] # Absent
    /\ dl[rd.path].locked

\* ----------------------------------------------------- errors in the waits
\* C12: the download wait never ends with an error because a file it was
\* told about, or found by its re-listing, has gone or is held open: it goes
\* on looping or returns, and run is not left by an exception.
C12_WaitNeverRaises == hist.exit # "error"

\* C13: a failure of move_and_rename_file for one item is reported to run as
\* a failed relocation and never makes run stop: no exception raised inside
\* move_and_rename_file leaves run.
C13_PlaceNeverAborts == hist.exit # "place"

\* ------------------------------------------------------------------ timeouts
\* workflow thread is inside _wait_for_new_png_download
InWf == pc \in {"L180", "L184", "L187", "L206", "L212", "L213", "L217",
                "L227", "L229", "L231"}

\* C14: a wait called with a finite timeout, and not skipped, eventually
\* returns, whatever arrives in the queue meanwhile.
C14_TimeoutHonoured ==
    ((InWc \/ InWf) /\ timeout # NoTimeout)
       ~> (~(InWc \/ InWf) \/ skip_prompt_event \/ skip_wait_download_event)

\* ---------------------------------------------------------------- skipping
\* the confirmation wait is in its loop, its flags cleared
WcLooping == pc \in {"L164", "L165", "L167", "L168"}

\* the download wait is past its clear of line 180
WfLooping == InWf /\ pc # "L180"

C15_Step ==
    /\ (pc = "L167" /\ skip_prompt_event /\ pc' # pc) => pc' = "L168"
    /\ (pc = "L168" /\ pc' # pc) => (pc' = "L274" /\ ~proceeded')
    /\ (pc = "L184" /\ skip_wait_download_event /\ pc' # pc) =>
          (pc' = "L285" /\ new_png' = None)
    /\ (WcLooping /\ skip_prompt_event) => skip_prompt_event'
    /\ (WfLooping /\ skip_wait_download_event) => skip_wait_download_event'

\* C15: both wait loops look at their skip flag on every iteration.  A
\* skip-prompt flag set after the confirmation wait cleared its flags stays
\* set and makes the call return, with False when the loop reaches the test
\* of line 167; a skip-download flag set after the download wait cleared it
\* stays set, makes the evaluation of the loop head return None, and the
\* call ends, also without a timeout and with events still arriving.
C15_SkipIsSeen ==
    /\ [][C15_Step]_vars
    /\ (WcLooping /\ skip_prompt_event) ~> (pc = "L274")
    /\ (WfLooping /\ skip_wait_download_event) ~> ~InWf

\* a download wait without timeout has returned None on Ctrl+Shift+C while
\* an event was still waiting in the queue
C15_Witness ==
    /\ pc = "L285"
    /\ new_png = None
    /\ skip_wait_download_event
    /\ timeout = NoTimeout
    /\ downloads_q # <<>>

\* ------------------------------------------------------- stale key presses
\* C16: flags do not carry over from before a wait: a confirmation wait
\* that returns True had its confirmation flag set, after it had cleared the
\* flag, by a Ctrl+V pressed after the call began.
C16_NoCarryOver == (WcReturned /\ proceeded) => hist.freshSet

\* C17: the expected text is set only while a confirmation wait is in
\* progress (before run is left).
C17_ExpectedOnlyInCall == (expected # None /\ pc \notin {"L333", "exit"}) => InWc

\* ---------------------------------------------------------------- snapshots
\* the download wait has just returned a file to run
RunGotFile == pc = "L285" /\ new_png # None /\ dl[new_png] # Absent

\* C18: a download wait of the main loop never returns a file that was
\* already in the downloads folder when that wait began.
C18_SnapshotAtWaitStart == RunGotFile => dl[new_png].id >= hist.startId

C19_Step ==
    /\ (pc = "L285" /\ pc' = "L264") => original_snapshot' = ListDir
    /\ (pc = "L293" /\ pc' = "L264") => original_snapshot' = ListDir

\* what a download wait returns to run is not a name of the snapshot
C19_Inv == (pc = "L285" /\ new_png # None) => new_png \notin original_snapshot

\* C19: after every download wait of the main loop, whether it returned
\* nothing or a file, relocated or not, run replaces the snapshot by the
\* listing of the downloads folder; so the name of every file that was in
\* the folder at that moment is in the snapshot of the next wait, and no
\* later wait returns that name, whatever events are still queued for it.
C19_SnapshotRefreshed == []C19_Inv /\ [][C19_Step]_vars

\* the wait of the second item has returned a new file; the file returned
\* for the first item is still in the folder (its relocation failed), it is
\* in the snapshot, and no event is left in the queue
C19_Witness ==
    /\ RunGotFile
    /\ index = 2
    /\ hist.item[1] = "RelocationFailed"
    /\ downloads_q = <<>>
    /\ \E f \in original_snapshot : f # new_png /\ dl[f] # Absent /\ dl[f].id = hist.returned[1]

\* C20: over a whole run no file is returned by two download waits: the
\* files returned so far are pairwise different files.
C20_AtMostOneItem ==
    \A i, j \in DOMAIN hist.returned :
       i # j => hist.returned[i] # hist.returned[j]

====
